---------------------------- MODULE Spec2Model ----------------------------
(***************************************************************************)
(* Model of MapComponent (src/src/types/map.ts): the React state of the    *)
(* component, the startup fetch (fetchData), the paginated polygon fetch   *)
(* (fetchAbalones), the viewport handler (handleMapMove), the realtime     *)
(* point notifications and the re-render that publishes new state to the   *)
(* handlers' closures.                                                     *)
(*                                                                         *)
(* React state is split in two: the committed state (what setX wrote) and  *)
(* `view`, the values captured by the closures of the last render.         *)
(* handleMapMove reads loadingMore, hasMore and abalones.length from its   *)
(* closure, so it sees `view`; functional updates (setX(current => ...))   *)
(* see the committed state.  Render copies the committed state to `view`.  *)
(*                                                                         *)
(* Scheduling: the continuations of fetchData and fetchAbalones run when   *)
(* their query is answered, mounted or not; the re-render is a task of its *)
(* own, so any number of events, notifications and answers can be handled  *)
(* on the closures of one render.  The continuation of fetchData after     *)
(* `await fetchAbalones(0)` is a microtask: only other continuations run   *)
(* between the end of fetchAbalones and it.                                *)
(***************************************************************************)
EXTENDS Integers, Sequences, FiniteSets, Bags, TLC

\* ---------------------------------------------------------------- bounds
PAGE_SIZE == 100

\* under sequential use the server dataset holds at most MaxPages pages
MaxPages == 3
\* fetchAbalones is called at most MaxCalls times in a session
MaxCalls == 4
\* the points collection is observed up to this length
MaxPoints == 2

\* ------------------------------------------------------------ value sets
\* a nullable value (T | null) is a sequence of length 0 or 1
None == << >>
Some(x) == << x >>

\* MapPoint.id is an opaque string
PointIds == {"p1", "p2"}
\* `name` stands for every attribute of a point other than its id
Names == {"a", "b"}
MapPoint == [id : PointIds, name : Names]

\* the value a rejected query hands to the catch block: an Error instance
\* (its message is used, and it may be the empty string) or a plain object
\* (the fallback text is used)
Errs == { [isError |-> TRUE, message |-> "connection lost"],
          [isError |-> TRUE, message |-> ""],
          [isError |-> FALSE, message |-> "permission denied"] }

\* sizes of the static server dataset of polygon records
Totals == {0, PAGE_SIZE \div 2, PAGE_SIZE + PAGE_SIZE \div 2}

Min(a, b) == IF a < b THEN a ELSE b

\* ------------------------------------------------- getMultiPolygonCenter
\* A number is an integer, NaN is the empty sequence; a quotient is kept as
\* a fraction in lowest terms.  A coordinate is a sequence of numbers:
\* << lon, lat >> when well formed; an element that is missing reads as
\* undefined and turns a sum into NaN.
NaN == << >>
Num(v) == << v >>

Abs(a) == IF a < 0 THEN -a ELSE a

RECURSIVE Gcd(_, _)
Gcd(a, b) == IF b = 0 THEN a ELSE Gcd(b, a % b)

\* a / b, for b > 0
Quotient(a, b) ==
    LET g == Gcd(Abs(a), b) IN [num |-> a \div g, den |-> b \div g]

\* sum + coord[k]
Plus(sum, coord, k) ==
    IF sum = NaN \/ k > Len(coord) THEN NaN ELSE Num(sum[1] + coord[k])

\* an element of allCoords: a coordinate, or undefined
Defined(coord) == [defined |-> TRUE, coord |-> coord]
Undefined == [defined |-> FALSE, coord |-> << >>]

RECURSIVE FlatMapAllRings(_)
\* mutant: every ring of a polygon is flattened, the holes included
FlatMapAllRings(coordinates) ==
    IF coordinates = << >> THEN << >>
    ELSE LET polygon == Head(coordinates)
             RECURSIVE Rings(_)
             Rings(rs) == IF rs = << >> THEN << >>
                          ELSE [i \in 1 .. Len(Head(rs)) |-> Defined(Head(rs)[i])]
                                   \o Rings(Tail(rs))
         IN (IF Len(polygon) = 0 THEN << Undefined >> ELSE Rings(polygon))
                \o FlatMapAllRings(Tail(coordinates))

RECURSIVE FlatMapOuterRings(_)
\* geom.coordinates.flatMap(polygon => polygon[0]): flatMap spreads an array
\* and keeps any other value, so a polygon without rings leaves undefined
FlatMapOuterRings(coordinates) ==
    IF coordinates = << >> THEN << >>
    ELSE LET polygon == Head(coordinates)
         IN (IF Len(polygon) = 0 THEN << Undefined >>
             ELSE [i \in 1 .. Len(polygon[1]) |-> Defined(polygon[1][i])])
                \o FlatMapOuterRings(Tail(coordinates))

RECURSIVE Reduce(_, _, _)
\* allCoords.reduce((sum, coord) => sum + coord[k], sum): reading coord[k]
\* of undefined throws a TypeError
Reduce(allCoords, k, sum) ==
    IF allCoords = << >> THEN [threw |-> FALSE, value |-> sum]
    ELSE IF ~Head(allCoords).defined THEN [threw |-> TRUE, value |-> NaN]
    ELSE Reduce(Tail(allCoords), k, Plus(sum, Head(allCoords).coord, k))

Threw == [threw |-> TRUE, value |-> << >>]
Returned(v) == [threw |-> FALSE, value |-> v]

\* return [-122.4, 37.8]
Fallback == << Quotient(-1224, 10), Quotient(378, 10) >>

\* the try block
TryCenter(g) ==
    LET allCoords == FlatMapOuterRings(g)
        sumX == Reduce(allCoords, 1, Num(0))
        sumY == Reduce(allCoords, 2, Num(0))
    IN  IF Len(allCoords) = 0 THEN Threw
        ELSE IF sumX.threw \/ sumY.threw THEN Threw
        ELSE IF sumX.value = NaN \/ sumY.value = NaN THEN Threw
        ELSE Returned(<< Quotient(sumX.value[1], Len(allCoords)),
                         Quotient(sumY.value[1], Len(allCoords)) >>)

\* mutant: the error of the try block reaches the caller
CenterUncaught(g) == TryCenter(g)

\* try { ... } catch (error) { return [-122.4, 37.8] }
getMultiPolygonCenter(g) ==
    IF TryCenter(g).threw THEN Returned(Fallback) ELSE TryCenter(g)

\* the multi-polygon of the two triangles (0,0),(2,0),(1,2) and (4,0),(6,0),(5,2)
ExampleGeom ==
    << << << <<0, 0>>, <<2, 0>>, <<1, 2>> >> >>,
       << << <<4, 0>>, <<6, 0>>, <<5, 2>> >> >> >>

\* ----------------------------------------------------------------- state
VARIABLES
    points,               \* useState<MapPoint[]>
    abalones,             \* useState<Abalone[]>: a record is written as its gid
    selectedPoint,        \* MapPoint | null
    selectedAbalone,      \* Abalone | null
    selectedCoordinates,  \* [number, number] | null
    error,                \* string | null
    loading,              \* full-screen loading flag
    loadingMore,          \* a page fetch is running
    hasMore,              \* more pages are expected
    view,                 \* state captured by the closures of the last render
    pc,                   \* fetchData: "points" | "page" | "done"
    pending,              \* bag of fetchAbalones calls awaiting their response
    calls,                \* number of fetchAbalones calls made so far
    subscribed,           \* the points_changes channel is open
    unsubscribes,         \* number of unsubscribe() calls
    mounted,              \* the component is mounted
    total,                \* number of rows of simplified_abalones (static)
    geom,                 \* the geom column of the rows (static, one value)
    last                  \* the operation that produced this state

vars == << points, abalones, selectedPoint, selectedAbalone, selectedCoordinates,
           error, loading, loadingMore, hasMore, view, pc, pending, calls,
           subscribed, unsubscribes, mounted, total, geom, last >>

selection == << selectedPoint, selectedAbalone, selectedCoordinates >>
lifecycle == << subscribed, unsubscribes, mounted >>
server == << total, geom >>

\* ------------------------------------------------------- server (static)
\* row i (1-based) of simplified_abalones has gid i: gids are unique
ServerRows(n) == [i \in 1 .. n |-> i]

\* .range(from, to) over the static dataset, with { count: 'exact' }
Range(n, from, to) ==
    IF from >= n THEN << >>
    ELSE [i \in 1 .. (Min(to + 1, n) - from) |-> from + i]

Response(n, startIndex) ==
    [data |-> Range(n, startIndex, startIndex + PAGE_SIZE - 1), count |-> n]

\* --------------------------------------------------------- fetchAbalones
\* err instanceof Error ? err.message : fallback
ErrorMessage(err, fallback) == IF err.isError THEN err.message ELSE fallback

\* if (error) in the render function: null and '' are falsy
ErrorShown(e) == e # None /\ e # Some("")

\* mutant: the comparison is off by one
HasMoreAfterInclusive(startIndex, count) ==
    IF count # 0 THEN startIndex + PAGE_SIZE <= count ELSE FALSE

\* count ? startIndex + PAGE_SIZE < count : false
HasMoreAfter(startIndex, count) ==
    IF count # 0 THEN startIndex + PAGE_SIZE < count ELSE FALSE

\* current => [...current, ...data]
AppendPage(current, data) == current \o data

Call(startIndex, startup) == [start |-> startIndex, startup |-> startup]

\* setX(new): a state setter of an unmounted component does nothing
Set(old, new) == IF mounted THEN new ELSE old

\* the synchronous part of fetchAbalones(startIndex): up to the await
StartFetch(startIndex, startup) ==
    /\ loadingMore' = Set(loadingMore, TRUE)
    /\ pending' = pending (+) SetToBag({Call(startIndex, startup)})
    /\ calls' = calls + 1

\* what the render function captures
Snapshot ==
    [loadingMore |-> loadingMore, hasMore |-> hasMore, n |-> Len(abalones),
     points |-> points, error |-> error,
     pointPopup |-> selectedPoint # None,
     abalonePopup |-> selectedAbalone # None /\ selectedCoordinates # None]

\* a task (an event, a notification, a render, the cleanup) starts only when
\* no continuation is queued: the one of fetchData after
\* `await fetchAbalones(0)` runs before any of them
TaskBoundary == pc # "resume"

\* the last render shows the committed state
Fresh == view = Snapshot

\* `last` names the operation that produced the state; a notification also
\* records its payload and the length of the collection it was applied to,
\* a marker click the point clicked, and a click on the polygon layer the
\* clicked gid (n) and the id of the point that was selected before it
Op(name) == [op |-> name, id |-> "", name |-> "", n |-> 0]
Notified(kind, id, name, n) == [op |-> kind, id |-> id, name |-> name, n |-> n]

\* ------------------------------------------------------------------ Init
\* the state after the mount effect ran: fetchData awaits the points query
\* and the channel is subscribed
Mounted ==
    /\ points = << >>
    /\ abalones = << >>
    /\ selectedPoint = None
    /\ selectedAbalone = None
    /\ selectedCoordinates = None
    /\ error = None
    /\ loading = TRUE
    /\ loadingMore = FALSE
    /\ hasMore = TRUE
    /\ view = [loadingMore |-> FALSE, hasMore |-> TRUE, n |-> 0,
               points |-> << >>, error |-> None,
               pointPopup |-> FALSE, abalonePopup |-> FALSE]
    /\ pc = "points"
    /\ pending = EmptyBag
    /\ calls = 0
    /\ subscribed = TRUE
    /\ unsubscribes = 0
    /\ mounted = TRUE
    /\ last = Op("mount")

Init == Mounted /\ total \in Totals /\ geom = ExampleGeom

\* --------------------------------------------------------------- startup
\* the unique-id results the points query can return (id is the primary key)
PointsResults ==
    { s \in UNION { [1 .. n -> MapPoint] : n \in 0 .. Cardinality(PointIds) } :
        \A i, j \in 1 .. Len(s) : i # j => s[i].id # s[j].id }

\* what the points query answers with: null or a result; and the two
\* answers used where the points themselves play no part
PointsAnswers == {None} \cup { Some(s) : s \in PointsResults }
TwoAnswers ==
    { None, Some(<< [id |-> "p1", name |-> "a"], [id |-> "p2", name |-> "b"] >>) }

\* pointsData || []
OrEmpty(data) == IF data = None THEN << >> ELSE data[1]

\* the points query resolved without error: setPoints, then fetchAbalones(0)
\* up to its await.  fetchData does not look at whether the component is
\* still mounted: the page query is issued either way
PointsFetched(data) ==
    /\ pc = "points"
    /\ points' = Set(points, OrEmpty(data))
    /\ StartFetch(0, TRUE)
    /\ pc' = "page"
    /\ last' = Op("PointsFetched")
    /\ UNCHANGED << abalones, selection, error, loading, hasMore, view,
                    lifecycle, server >>

\* mutant: the finally block is missing
PointsFailedKeepsLoading(err) ==
    /\ pc = "points"
    /\ error' = Set(error, Some(ErrorMessage(err, "Failed to load data")))
    /\ pc' = "done"
    /\ last' = Op("PointsFailed")
    /\ UNCHANGED << points, abalones, selection, loading, loadingMore, hasMore,
                    view, pending, calls, lifecycle, server >>

\* the points query resolved with an error: catch, finally
PointsFailed(err) ==
    /\ pc = "points"
    /\ error' = Set(error, Some(ErrorMessage(err, "Failed to load data")))
    /\ loading' = Set(loading, FALSE)
    /\ pc' = "done"
    /\ last' = Op("PointsFailed")
    /\ UNCHANGED << points, abalones, selection, loadingMore, hasMore, view,
                    pending, calls, lifecycle, server >>

\* fetchAbalones returned: the promise awaited by fetchData is resolved and
\* the continuation of fetchData is queued
Returns(call) == pc' = IF call.startup THEN "resume" ELSE pc

\* a page query resolved with data: the rest of fetchAbalones, finally included
FetchAbalonesOk(call, resp) ==
    /\ BagIn(call, pending)
    /\ pending' = pending (-) SetToBag({call})
    /\ abalones' = Set(abalones, AppendPage(abalones, resp.data))
    /\ hasMore' = Set(hasMore, HasMoreAfter(call.start, resp.count))
    /\ loadingMore' = Set(loadingMore, FALSE)
    /\ Returns(call)
    /\ last' = Op(IF call.startup THEN "FirstPageOk" ELSE "PageOk")
    /\ UNCHANGED << points, selection, error, loading, view, calls, lifecycle,
                    server >>

\* a page query resolved with neither error nor data: `if (data)` is skipped
FetchAbalonesNoData(call) ==
    /\ BagIn(call, pending)
    /\ pending' = pending (-) SetToBag({call})
    /\ loadingMore' = Set(loadingMore, FALSE)
    /\ Returns(call)
    /\ last' = Op(IF call.startup THEN "FirstPageNoData" ELSE "PageNoData")
    /\ UNCHANGED << points, abalones, selection, error, loading, hasMore, view,
                    calls, lifecycle, server >>

\* mutant: the catch block also gives up on further pages
FetchAbalonesFailedExhausts(call, err) ==
    /\ BagIn(call, pending)
    /\ pending' = pending (-) SetToBag({call})
    /\ error' = Set(error, Some(ErrorMessage(err, "Failed to load abalone data")))
    /\ hasMore' = Set(hasMore, FALSE)
    /\ loadingMore' = Set(loadingMore, FALSE)
    /\ Returns(call)
    /\ last' = Op(IF call.startup THEN "FirstPageFailed" ELSE "PageFailed")
    /\ UNCHANGED << points, abalones, selection, loading, view, calls,
                    lifecycle, server >>

\* a page query resolved with an error: catch inside fetchAbalones, finally
FetchAbalonesFailed(call, err) ==
    /\ BagIn(call, pending)
    /\ pending' = pending (-) SetToBag({call})
    /\ error' = Set(error, Some(ErrorMessage(err, "Failed to load abalone data")))
    /\ loadingMore' = Set(loadingMore, FALSE)
    /\ Returns(call)
    /\ last' = Op(IF call.startup THEN "FirstPageFailed" ELSE "PageFailed")
    /\ UNCHANGED << points, abalones, selection, loading, hasMore, view, calls,
                    lifecycle, server >>

\* fetchData resumes after `await fetchAbalones(0)`, in a later microtask
\* than the one that ended fetchAbalones: finally { setLoading(false) }
ResumeFetchData ==
    /\ pc = "resume"
    /\ loading' = Set(loading, FALSE)
    /\ pc' = "done"
    /\ last' = Op("ResumeFetchData")
    /\ UNCHANGED << points, abalones, selection, error, loadingMore, hasMore,
                    view, pending, calls, lifecycle, server >>

\* ------------------------------------------------------------ pagination
\* onMoveEnd / onZoomEnd: the Map is mounted only while the rendered error
\* is falsy; the handler reads the closure of the last render, whether or
\* not state has changed since
ViewportEvents == {"moveend", "zoomend"}

HandleMapMove(event) ==
    /\ mounted /\ TaskBoundary
    /\ ~ErrorShown(view.error)
    /\ IF ~view.loadingMore /\ view.hasMore
       THEN /\ calls < MaxCalls
            /\ StartFetch(view.n, FALSE)
       ELSE UNCHANGED << loadingMore, pending, calls >>
    /\ last' = Op(event)
    /\ UNCHANGED << points, abalones, selection, error, loading, hasMore, view,
                    pc, lifecycle, server >>

\* React re-renders: the handlers' closures now hold the committed state
Render ==
    /\ mounted /\ TaskBoundary
    /\ view # Snapshot
    /\ view' = Snapshot
    /\ last' = Op("render")
    /\ UNCHANGED << points, abalones, selection, error, loading, loadingMore,
                    hasMore, pc, pending, calls, lifecycle, server >>

\* --------------------------------------------- realtime notifications
\* INSERT: current => [...current, payload.new]
InsertPoint(current, new) == Append(current, new)

\* mutant: the filter keeps the matching record instead of dropping it
DeletePointInverted(current, oldId) ==
    SelectSeq(current, LAMBDA point : point.id = oldId)

\* DELETE: current => current.filter(point => point.id !== payload.old.id)
DeletePoint(current, oldId) == SelectSeq(current, LAMBDA point : point.id # oldId)

\* UPDATE: current => current.map(point => point.id === payload.new.id ? payload.new : point)
UpdatePoint(current, new) ==
    [i \in 1 .. Len(current) |-> IF current[i].id = new.id THEN new ELSE current[i]]

\* the postgres_changes callback, one action per payload.eventType
OnInsert(new) ==
    /\ subscribed /\ TaskBoundary
    /\ Len(points) < MaxPoints
    /\ points' = InsertPoint(points, new)
    /\ last' = Notified("INSERT", new.id, new.name, Len(points))
    /\ UNCHANGED << abalones, selection, error, loading, loadingMore, hasMore,
                    view, pc, pending, calls, lifecycle, server >>

OnDelete(oldId) ==
    /\ subscribed /\ TaskBoundary
    /\ points' = DeletePoint(points, oldId)
    /\ last' = Notified("DELETE", oldId, "", Len(points))
    /\ UNCHANGED << abalones, selection, error, loading, loadingMore, hasMore,
                    view, pc, pending, calls, lifecycle, server >>

OnUpdate(new) ==
    /\ subscribed /\ TaskBoundary
    /\ points' = UpdatePoint(points, new)
    /\ last' = Notified("UPDATE", new.id, new.name, Len(points))
    /\ UNCHANGED << abalones, selection, error, loading, loadingMore, hasMore,
                    view, pc, pending, calls, lifecycle, server >>

\* ---------------------------------------------------------------- unmount
\* mutant: the cleanup leaves the channel open
UnmountKeepsChannel ==
    /\ mounted /\ TaskBoundary
    /\ mounted' = FALSE
    /\ last' = Op("unmount")
    /\ UNCHANGED << points, abalones, selection, error, loading, loadingMore,
                    hasMore, view, pc, pending, calls, subscribed, unsubscribes,
                    server >>

\* the effect's cleanup: pointsSubscription.unsubscribe().  fetchData and
\* fetchAbalones go on when their queries are answered; their setters then
\* do nothing
Unmount ==
    /\ mounted /\ TaskBoundary
    /\ mounted' = FALSE
    /\ subscribed' = FALSE
    /\ unsubscribes' = unsubscribes + 1
    /\ last' = Op("unmount")
    /\ UNCHANGED << points, abalones, selection, error, loading, loadingMore,
                    hasMore, view, pc, pending, calls, server >>

\* ------------------------------------------------------------- selection
\* the gids a clicked feature can carry: a row of the first page and a row
\* of the second
ClickGids == {1, PAGE_SIZE + 1}

\* abalones.find(a => a.gid === feature.properties.gid) in the closure of
\* the last render (useCallback, [abalones])
Find(gid) == \E i \in 1 .. view.n : abalones[i] = gid

\* mutant: a click on the polygon layer leaves the selected point alone
SelectAbaloneKeepsPoint(gid, center) ==
    /\ selectedAbalone' = Some(gid)
    /\ selectedCoordinates' = Some(center)
    /\ UNCHANGED selectedPoint

\* setSelectedAbalone(abalone); setSelectedCoordinates(center); setSelectedPoint(null)
SelectAbalone(gid, center) ==
    /\ selectedAbalone' = Some(gid)
    /\ selectedCoordinates' = Some(center)
    /\ selectedPoint' = None

\* mutant: an unknown gid clears the selection
NotFoundClears == selectedAbalone' = None /\ selectedCoordinates' = None /\ selectedPoint' = None

\* if (abalone && abalone.geom) is false: nothing is set
NotFound == UNCHANGED selection

\* onClick of the Map: `feature` is features[0].properties.gid, or None when
\* the click hit no feature of the polygon layer.  Every row carries a geom
\* object (Abalone.geom is not optional), so abalone.geom is truthy.
HandleMapClick(feature) ==
    /\ mounted /\ TaskBoundary
    /\ ~ErrorShown(view.error)
    /\ IF feature # None
       THEN IF Find(feature[1])
            THEN LET center == getMultiPolygonCenter(geom)
                 IN  IF center.threw
                     THEN /\ selectedAbalone' = None
                          /\ selectedCoordinates' = None
                          /\ UNCHANGED selectedPoint
                     ELSE SelectAbalone(feature[1], center.value)
            ELSE NotFound
       ELSE /\ selectedAbalone' = None
            /\ selectedCoordinates' = None
            /\ selectedPoint' = None
    /\ last' = IF feature # None
               THEN Notified("polygonClick",
                             IF selectedPoint # None THEN selectedPoint[1].id ELSE "",
                             "", feature[1])
               ELSE Op("emptyClick")
    /\ UNCHANGED << points, abalones, error, loading, loadingMore, hasMore,
                    view, pc, pending, calls, lifecycle, server >>

\* mutant: a marker click leaves the polygon selection in place
SelectPointKeepsAbalone(point) ==
    /\ selectedPoint' = Some(point)
    /\ UNCHANGED << selectedAbalone, selectedCoordinates >>

\* setSelectedPoint(point); setSelectedAbalone(null); setSelectedCoordinates(null)
SelectPoint(point) ==
    /\ selectedPoint' = Some(point)
    /\ selectedAbalone' = None
    /\ selectedCoordinates' = None

\* onClick of the i-th rendered Marker; stopPropagation keeps the click from
\* the Map
MarkerClick(i) ==
    /\ mounted /\ TaskBoundary
    /\ ~ErrorShown(view.error)
    /\ i \in 1 .. Len(view.points)
    /\ SelectPoint(view.points[i])
    /\ last' = Notified("markerClick", view.points[i].id, view.points[i].name, 0)
    /\ UNCHANGED << points, abalones, error, loading, loadingMore, hasMore,
                    view, pc, pending, calls, lifecycle, server >>

\* onClose of the point popup, which is there when the last render had a
\* selected point
ClosePointPopup ==
    /\ mounted /\ TaskBoundary
    /\ ~ErrorShown(view.error)
    /\ view.pointPopup
    /\ selectedPoint' = None
    /\ last' = Op("closePointPopup")
    /\ UNCHANGED << points, abalones, selectedAbalone, selectedCoordinates,
                    error, loading, loadingMore, hasMore, view, pc, pending,
                    calls, lifecycle, server >>

\* mutant: closing the polygon popup keeps the anchor
ClearAbaloneKeepsAnchor == selectedAbalone' = None /\ UNCHANGED selectedCoordinates

\* setSelectedAbalone(null); setSelectedCoordinates(null)
ClearAbalone == selectedAbalone' = None /\ selectedCoordinates' = None

\* onClose of the polygon popup, which is there when the last render had a
\* selected polygon and an anchor
CloseAbalonePopup ==
    /\ mounted /\ TaskBoundary
    /\ ~ErrorShown(view.error)
    /\ view.abalonePopup
    /\ ClearAbalone
    /\ last' = Op("closeAbalonePopup")
    /\ UNCHANGED << points, abalones, selectedPoint, error, loading,
                    loadingMore, hasMore, view, pc, pending, calls, lifecycle,
                    server >>

\* ------------------------------------------------------------------ Spec
\* startup, pagination and rendering
Next ==
    \/ \E data \in TwoAnswers : PointsFetched(data)
    \/ \E err \in Errs : PointsFailed(err)
    \/ \E call \in BagToSet(pending) :
           FetchAbalonesOk(call, Response(total, call.start))
    \/ \E call \in BagToSet(pending), err \in Errs : FetchAbalonesFailed(call, err)
    \/ \E event \in ViewportEvents : HandleMapMove(event)
    \/ ResumeFetchData
    \/ Render

Spec == Init /\ [][Next]_vars

\* sequential use: every query succeeds and a viewport event arrives only
\* after startup, with no page fetch outstanding and the answers rendered
SeqInit == Mounted /\ total \in 0 .. MaxPages * PAGE_SIZE /\ geom = ExampleGeom

SeqNext ==
    \/ \E data \in TwoAnswers : PointsFetched(data)
    \/ \E call \in BagToSet(pending) :
           FetchAbalonesOk(call, Response(total, call.start))
    \/ \E event \in ViewportEvents :
           /\ pc = "done" /\ pending = EmptyBag /\ Fresh
           /\ HandleMapMove(event)
    \/ ResumeFetchData
    \/ Render

SeqSpec == SeqInit /\ [][SeqNext]_vars

\* startup and the realtime notifications for points
NotifyNext ==
    \/ \E data \in PointsAnswers : PointsFetched(data)
    \/ \E err \in Errs : PointsFailed(err)
    \/ \E call \in BagToSet(pending) :
           FetchAbalonesOk(call, Response(total, call.start))
    \/ \E call \in BagToSet(pending), err \in Errs : FetchAbalonesFailed(call, err)
    \/ \E new \in MapPoint : OnInsert(new)
    \/ \E oldId \in PointIds : OnDelete(oldId)
    \/ \E new \in MapPoint : OnUpdate(new)
    \/ ResumeFetchData
    \/ Render

NotifySpec == Init /\ [][NotifyNext]_vars

\* the map in use: startup, the clicks, and the notifications that change or
\* remove a point
SelectInit == Mounted /\ total = PAGE_SIZE + PAGE_SIZE \div 2 /\ geom = ExampleGeom

SelectNext ==
    \/ \E data \in PointsAnswers : PointsFetched(data)
    \/ \E call \in BagToSet(pending) :
           FetchAbalonesOk(call, Response(total, call.start))
    \/ \E oldId \in PointIds : OnDelete(oldId)
    \/ \E new \in MapPoint : OnUpdate(new)
    \/ \E i \in 1 .. MaxPoints : MarkerClick(i)
    \/ \E gid \in ClickGids : HandleMapClick(Some(gid))
    \/ HandleMapClick(None)
    \/ ClosePointPopup
    \/ CloseAbalonePopup
    \/ ResumeFetchData
    \/ Render

SelectSpec == SelectInit /\ [][SelectNext]_vars

\* a session from mount to unmount: startup, notifications, teardown
LifeNext ==
    \/ \E data \in PointsAnswers : PointsFetched(data)
    \/ \E err \in Errs : PointsFailed(err)
    \/ \E call \in BagToSet(pending) :
           FetchAbalonesOk(call, Response(total, call.start))
    \/ \E call \in BagToSet(pending), err \in Errs : FetchAbalonesFailed(call, err)
    \/ \E new \in MapPoint : OnInsert(new)
    \/ \E oldId \in PointIds : OnDelete(oldId)
    \/ \E new \in MapPoint : OnUpdate(new)
    \/ ResumeFetchData
    \/ Render
    \/ Unmount

LifeSpec == Init /\ [][LifeNext]_vars

\* pagination against a backend whose answers are not tied to one static
\* dataset: any page of rows (or none, or null) with any reported count
LooseResponses(startIndex) ==
    { [data |-> Range(n, startIndex, startIndex + PAGE_SIZE - 1), count |-> count] :
      n \in Totals, count \in Totals }

LooseNext ==
    \/ \E data \in TwoAnswers : PointsFetched(data)
    \/ \E call \in BagToSet(pending) :
           \E resp \in LooseResponses(call.start) : FetchAbalonesOk(call, resp)
    \/ \E call \in BagToSet(pending) : FetchAbalonesNoData(call)
    \/ \E event \in ViewportEvents :
           /\ pc = "done" /\ pending = EmptyBag
           /\ HandleMapMove(event)
    \/ ResumeFetchData
    \/ Render

\* the static dataset plays no part here
LooseInit == Mounted /\ total = 0 /\ geom = ExampleGeom

LooseSpec == LooseInit /\ [][LooseNext]_vars

\* the startup requests eventually return: a query that stays outstanding is
\* answered, with data or with an error, and a queued continuation runs
StartupPointsReturns ==
    \/ \E data \in TwoAnswers : PointsFetched(data)
    \/ \E err \in Errs : PointsFailed(err)

StartupPageReturns ==
    \E call \in BagToSet(pending) :
        /\ call.startup
        /\ \/ FetchAbalonesOk(call, Response(total, call.start))
           \/ \E err \in Errs : FetchAbalonesFailed(call, err)

FairSpec ==
    /\ Init /\ [][Next]_vars
    /\ WF_vars(StartupPointsReturns)
    /\ WF_vars(StartupPageReturns)
    /\ WF_vars(ResumeFetchData)

\* ---------------------------------------------- bounded multi-polygons
\* a multi-polygon has at most MaxPolygons polygons and at most MaxVertices
\* outer-ring coordinates in all
MaxPolygons == 2
MaxVertices == 3

\* well-formed coordinates, and one with its latitude missing
Coords == { <<-3, 0>>, <<2, 1>>, <<4, 1>>, << 5 >> }

\* an inner ring (a hole)
Hole == << <<7, 7>>, <<7, 8>>, <<8, 7>> >>

\* the polygons whose outer ring has k coordinates, and for k = 0 also the
\* polygon without rings
PolygonsOf(k) ==
    { << ring >> : ring \in [1 .. k -> Coords] }
        \cup { << ring, Hole >> : ring \in [1 .. k -> Coords] }
        \cup (IF k = 0 THEN { << >> } ELSE { })

RECURSIVE Geoms(_, _)
Geoms(p, v) ==
    { << >> } \cup
    (IF p = 0 THEN { }
     ELSE UNION { { << polygon >> \o rest :
                        polygon \in PolygonsOf(k), rest \in Geoms(p - 1, v - k) } :
                  k \in 0 .. v })

\* the state after a startup that loaded the one row of the table, rendered
CenterInit ==
    /\ points = << >>
    /\ abalones = ServerRows(1)
    /\ selectedPoint = None
    /\ selectedAbalone = None
    /\ selectedCoordinates = None
    /\ error = None
    /\ loading = FALSE
    /\ loadingMore = FALSE
    /\ hasMore = FALSE
    /\ view = [loadingMore |-> FALSE, hasMore |-> FALSE, n |-> 1,
               points |-> << >>, error |-> None,
               pointPopup |-> FALSE, abalonePopup |-> FALSE]
    /\ pc = "done"
    /\ pending = EmptyBag
    /\ calls = 1
    /\ subscribed = TRUE
    /\ unsubscribes = 0
    /\ mounted = TRUE
    /\ total = 1
    /\ geom \in Geoms(MaxPolygons, MaxVertices) \cup {ExampleGeom}
    /\ last = Op("render")

CenterNext ==
    \/ \E gid \in ClickGids : HandleMapClick(Some(gid))
    \/ HandleMapClick(None)
    \/ CloseAbalonePopup
    \/ Render

CenterSpec == CenterInit /\ [][CenterNext]_vars

\* ---------------------------------------------------------------- claims
InFlight == BagCardinality(pending)

HasId(s, id) == \E i \in 1 .. Len(s) : s[i].id = id

RECURSIVE Without(_, _)
\* s with every record of the given id taken out, the rest in order
Without(s, id) ==
    IF s = << >> THEN << >>
    ELSE IF Head(s).id = id THEN Without(Tail(s), id)
         ELSE << Head(s) >> \o Without(Tail(s), id)

\* s with the record(s) of new.id replaced in place by new
Replaced(s, new) == [i \in 1 .. Len(s) |-> IF s[i].id = new.id THEN new ELSE s[i]]

Payload == [id |-> last'.id, name |-> last'.name]

\* C1: at most one polygon-page fetch is in flight in every reachable state.
C1_SingleFlight == InFlight <= 1

\* C2: under sequential use against a static dataset of `total` records,
\* once k fetches have completed the collection is the first
\* min(k * PAGE_SIZE, total) server rows in server order, the sub-state is
\* exhausted iff k * PAGE_SIZE >= total (iff the loaded count reached the
\* total) and idle otherwise, and no fetch is issued once exhausted.
C2_SequentialPagination ==
    /\ (pc = "done" /\ pending = EmptyBag) =>
          /\ abalones = SubSeq(ServerRows(total), 1, Min(calls * PAGE_SIZE, total))
          /\ ~loadingMore
          /\ ~hasMore <=> calls * PAGE_SIZE >= total
          /\ ~hasMore <=> Len(abalones) = total
    /\ calls > 1 => (calls - 1) * PAGE_SIZE < total

\* 250 records: 100, 200, 250 loaded, exhausted, and a further request made
\* (which issued no fetch)
C2_Witness ==
    /\ total = 2 * PAGE_SIZE + PAGE_SIZE \div 2
    /\ calls = 3 /\ pending = EmptyBag
    /\ Len(abalones) = total /\ ~hasMore /\ ~loadingMore
    /\ Fresh /\ last.op \in ViewportEvents

\* C3: no two records of the polygon collection have the same gid.
C3_UniqueGids ==
    Cardinality({ abalones[i] : i \in 1 .. Len(abalones) }) = Len(abalones)

\* C4: the failure of a next-page fetch issued after startup completed (the
\* only fetch in flight) does not put the view into the error state: the
\* map stays presented and can paginate again.
C4_PaginationFailureKeepsMap ==
    [][ ( /\ last'.op = "PageFailed"
          /\ pc = "done" /\ ~ErrorShown(error)
          /\ Len(abalones) > 0
          /\ pending = SetToBag({Call(Len(abalones), FALSE)}) )
            => ~ErrorShown(error') ]_vars

\* C5: a failing page fetch leaves the polygon and the points collection as
\* they were, clears the fetching flag and does not set the exhausted flag,
\* so a sub-state that was not exhausted is idle afterwards.
C5_FailureKeepsData ==
    [][ last'.op \in {"PageFailed", "FirstPageFailed"} =>
            /\ abalones' = abalones
            /\ points' = points
            /\ loadingMore' = FALSE
            /\ hasMore' = hasMore ]_vars

C5_Witness ==
    /\ last.op = "PageFailed"
    /\ Len(abalones) = PAGE_SIZE /\ points # << >>
    /\ ~loadingMore /\ hasMore /\ pending = EmptyBag

\* C6: a failure of the startup point fetch or of the startup first page
\* shows an error with a non-empty message and keeps the loaded data; a
\* shown error is never cleared; and once fetchData has ended with an error
\* shown, a fetch is issued only by a viewport event, and by nothing once
\* the error panel is rendered.
C6_StartupFailureTerminal ==
    [][ /\ last'.op \in {"PointsFailed", "FirstPageFailed"} =>
              /\ ErrorShown(error')
              /\ points' = points /\ abalones' = abalones
        /\ ErrorShown(error) => ErrorShown(error')
        /\ (pc = "done" /\ ErrorShown(error) /\ calls' # calls)
              => last'.op \in ViewportEvents
        /\ (pc = "done" /\ ErrorShown(view.error)) => calls' = calls ]_vars

\* C7: an insert notification appends a point whose id is not in the
\* collection, and replaces in place (same length) one whose id is.
C7_InsertUpserts ==
    [][ last'.op = "INSERT" =>
            IF HasId(points, Payload.id)
            THEN points' = Replaced(points, Payload)
            ELSE points' = Append(points, Payload) ]_vars

\* C8: no two points of the collection have the same id.
C8_UniquePointIds ==
    \A i, j \in 1 .. Len(points) : i # j => points[i].id # points[j].id

\* C9: an update notification replaces the record of the matching id when
\* there is one, and appends the notified record when there is none.
C9_UpdateUpserts ==
    [][ last'.op = "UPDATE" =>
            IF HasId(points, Payload.id)
            THEN points' = Replaced(points, Payload)
            ELSE points' = Append(points, Payload) ]_vars

\* C10: a delete notification takes out the record of the notified id and
\* leaves every other record, in its order; for an id that is not in the
\* collection it changes nothing.
C10_DeleteRemovesMatching ==
    [][ last'.op = "DELETE" =>
            /\ ~HasId(points', last'.id)
            /\ points' = Without(points, last'.id)
            /\ ~HasId(points, last'.id) => points' = points ]_vars

\* a delete that took one record out of two and kept the other
C10_Witness ==
    /\ last.op = "DELETE" /\ last.n = 2
    /\ Len(points) = 1 /\ ~HasId(points, last.id)

\* the outer-ring coordinates of g, as (polygon, position) index pairs
Vertices(g) ==
    UNION { { << i, j >> : j \in 1 .. (IF Len(g[i]) = 0 THEN 0 ELSE Len(g[i][1])) } :
            i \in 1 .. Len(g) }

\* every polygon has an outer ring and every outer-ring coordinate is a pair
WellFormed(g) ==
    /\ \A i \in 1 .. Len(g) : Len(g[i]) >= 1
    /\ \A v \in Vertices(g) : Len(g[v[1]][1][v[2]]) = 2

RECURSIVE SumOver(_, _, _)
\* the sum of component k over the index pairs S
SumOver(S, g, k) ==
    IF S = { } THEN 0
    ELSE LET v == CHOOSE v \in S : TRUE
         IN  g[v[1]][1][v[2]][k] + SumOver(S \ {v}, g, k)

\* the fraction f equals sum / n
IsMean(f, sum, n) == f.den > 0 /\ f.num * n = sum * f.den

\* no outer-ring coordinate at all (which covers no polygons and empty
\* outer rings), a polygon without rings, or a coordinate that is no pair
Degenerate(g) ==
    \/ Vertices(g) = { }
    \/ \E i \in 1 .. Len(g) : Len(g[i]) = 0
    \/ \E v \in Vertices(g) : Len(g[v[1]][1][v[2]]) # 2

\* C11: a point and a polygon are never selected at the same time.
C11_OneSelection == ~(selectedPoint # None /\ selectedAbalone # None)

\* point p1 was selected, then polygon 1 was clicked: only the polygon is
C11_Witness ==
    /\ last.op = "polygonClick" /\ last.id = "p1" /\ last.n = 1
    /\ selectedAbalone = Some(1) /\ selectedPoint = None

\* C12: a polygon click whose gid is not in the polygon collection the
\* handler holds (that of the last render) leaves the three selection
\* variables unchanged; one whose gid is in it selects that record with
\* its computed anchor and clears the point selection.
C12_PolygonClickFrame ==
    [][ last'.op = "polygonClick" =>
            IF \E i \in 1 .. view.n : abalones[i] = last'.n
            THEN /\ selectedAbalone' = Some(last'.n)
                 /\ selectedCoordinates' = Some(getMultiPolygonCenter(geom).value)
                 /\ selectedPoint' = None
            ELSE /\ selectedAbalone' = selectedAbalone
                 /\ selectedCoordinates' = selectedCoordinates
                 /\ selectedPoint' = selectedPoint ]_vars

\* a click on a feature of the second page, not loaded, with a point selected
C12_Witness ==
    /\ last.op = "polygonClick" /\ last.n = PAGE_SIZE + 1 /\ last.id = "p2"
    /\ Len(abalones) = PAGE_SIZE
    /\ selectedPoint # None /\ selectedAbalone = None

\* C13: for a multi-polygon whose polygons all have an outer ring of
\* coordinate pairs, n >= 1 of them in all, the helper returns
\* (sum of longitudes / n, sum of latitudes / n) over the outer rings only,
\* and that is the anchor a click stores.
C13_CenterIsMean ==
    (WellFormed(geom) /\ Cardinality(Vertices(geom)) >= 1) =>
        LET c == getMultiPolygonCenter(geom)
            n == Cardinality(Vertices(geom))
        IN  /\ ~c.threw
            /\ IsMean(c.value[1], SumOver(Vertices(geom), geom, 1), n)
            /\ IsMean(c.value[2], SumOver(Vertices(geom), geom, 2), n)
            /\ selectedCoordinates # None => selectedCoordinates = Some(c.value)

\* the two triangles: longitude 3, latitude 4/6
C13_Witness ==
    /\ geom = ExampleGeom
    /\ selectedAbalone = Some(1)
    /\ selectedCoordinates = Some(<< [num |-> 3, den |-> 1], [num |-> 2, den |-> 3] >>)

\* C14: the helper never raises, and for a degenerate multi-polygon it
\* returns the fallback (-122.4, 37.8), which is the anchor a click stores.
C14_DegenerateGivesFallback ==
    LET c == getMultiPolygonCenter(geom)
        fallback == << [num |-> -612, den |-> 5], [num |-> 189, den |-> 5] >>
    IN  /\ ~c.threw
        /\ Degenerate(geom) =>
              /\ c.value = fallback
              /\ selectedAbalone # None => selectedCoordinates = Some(fallback)

\* a polygon without rings beside a polygon with coordinates, clicked
C14_Witness ==
    /\ \E i \in 1 .. Len(geom) : Len(geom[i]) = 0
    /\ Vertices(geom) # { }
    /\ last.op = "polygonClick" /\ selectedAbalone = Some(1)
    /\ selectedCoordinates = Some(<< [num |-> -612, den |-> 5], [num |-> 189, den |-> 5] >>)

\* C15: the subscription is cancelled exactly once, at teardown: never
\* while the component is mounted, and once when it is unmounted, whatever
\* the state of the startup fetches.
C15_UnsubscribedOnceAtTeardown ==
    /\ mounted => (subscribed /\ unsubscribes = 0)
    /\ ~mounted => (~subscribed /\ unsubscribes = 1)

\* torn down while the first polygon page is still outstanding
C15_Witness ==
    /\ last.op = "unmount" /\ ~mounted
    /\ pc = "page" /\ pending # EmptyBag
    /\ unsubscribes = 1

\* C16: no insert/update/delete notification is applied to the points
\* collection while the view is still initializing or after a startup
\* failure.
C16_NotifiedOnlyWhenReady ==
    last.op \in {"INSERT", "UPDATE", "DELETE"} =>
        (pc = "done" /\ ~loading /\ error = None)

\* C17: a successful page fetch that returns an empty page leaves the
\* pagination exhausted, whatever count the response reports.
C17_EmptyPageExhausts ==
    [][ (last'.op \in {"FirstPageOk", "PageOk"} /\ abalones' = abalones)
            => ~hasMore' ]_vars

\* C19: the loading flag eventually becomes false, and once false it never
\* becomes true again.
C19_LoadingEnds == <>(~loading) /\ [][~loading => ~loading']_vars

\* the first polygon page failed and the loading flag is down
C19_Witness ==
    /\ ~loading /\ last.op = "ResumeFetchData" /\ pc = "done"
    /\ calls = 1 /\ ErrorShown(error) /\ abalones = << >>

\* C18: a selected point is a record of the points collection, with that
\* record's current values.
C18_SelectionIsCurrent ==
    selectedPoint # None => \E i \in 1 .. Len(points) : points[i] = selectedPoint[1]

\* C20: a polygon is selected exactly when an anchor coordinate is set.
C20_AnchorIffAbalone == (selectedAbalone # None) <=> (selectedCoordinates # None)

\* the polygon popup was closed: polygon and anchor are both cleared
C20_Witness ==
    /\ last.op = "closeAbalonePopup"
    /\ selectedAbalone = None /\ selectedCoordinates = None

=============================================================================
